---- MODULE Spec2Model ----
(***************************************************************************)
(* A model of safe/storage/utilities.py: the keyword metadata store        *)
(* (read_keywords / write_keywords on one .keywords file) and the pure     *)
(* geometry helpers.                                                       *)
(*                                                                         *)
(* Strings are sequences of one-character strings, so that formatting     *)
(* ('%s: %s\n') and parsing (rstrip, find(':'), strip, the header regex)   *)
(* are computed character by character.  A Python dict is the set of its   *)
(* <<key, value>> items; its iteration order is not fixed by the language  *)
(* and is chosen nondeterministically wherever the code iterates.          *)
(***************************************************************************)
EXTENDS Integers, Sequences, FiniteSets, TLC

VARIABLES
    file,       \* the keywords file: [exists, data]
    handles,    \* write handles that were opened and never closed, with their unflushed buffers
    last,       \* the last completed call: its arguments and its outcome
    written,    \* history: the sublayer writes made since the file was absent
    pc,         \* concurrent writers: position of each writer inside write_keywords
    loc,        \* concurrent writers: arguments and local variables of each writer
    arg,        \* geometry: the arguments of the call
    out         \* geometry: the value returned (or the error raised) by the call

vars == <<file, handles, last, written, pc, loc, arg, out>>

(***************************************************************************)
(* Python values                                                           *)
(***************************************************************************)
\* None, and two objects that are not strings: an int used as a key and an object whose
\* __str__ raises.  Each is a one-element sequence holding a token that is not a character.
PyNone == <<"<None>">>
PyInt == <<"<int>">>
PyUnprintable == <<"<unprintable>">>

isinstance_basestring(k) == k \notin {PyNone, PyInt, PyUnprintable}

\* str(v): a str is returned unchanged, None gives 'None', the int gives '1'.
str(v) ==
    IF v = PyNone THEN <<"N", "o", "n", "e">>
    ELSE IF v = PyInt THEN <<"1">>
    ELSE v

str_raises(v) == v = PyUnprintable

isspace(c) == c \in {" ", "\n", "\t"}

RECURSIVE rstrip(_)
rstrip(s) ==
    IF s = <<>> THEN <<>>
    ELSE IF isspace(s[Len(s)]) THEN rstrip(SubSeq(s, 1, Len(s) - 1))
    ELSE s

RECURSIVE lstrip(_)
lstrip(s) ==
    IF s = <<>> THEN <<>>
    ELSE IF isspace(s[1]) THEN lstrip(Tail(s))
    ELSE s

strip(s) == lstrip(rstrip(s))

\* s.find(c): the first position of c (counted from 1), 0 when c does not occur.
RECURSIVE find_from(_, _, _)
find_from(s, c, i) ==
    IF i > Len(s) THEN 0
    ELSE IF s[i] = c THEN i
    ELSE find_from(s, c, i + 1)

find(s, c) == find_from(s, c, 1)

\* fid.readlines(): the text cut after every newline; a last line without one is kept.
RECURSIVE readlines(_)
readlines(data) ==
    IF data = <<>> THEN <<>>
    ELSE LET i == find(data, "\n")
         IN  IF i = 0 THEN <<data>>
             ELSE <<SubSeq(data, 1, i)>> \o readlines(SubSeq(data, i + 1, Len(data)))

(***************************************************************************)
(* dicts                                                                   *)
(***************************************************************************)
Keys(d) == {item[1] : item \in d}

\* d[k] = v
DictSet(d, k, v) == {item \in d : item[1] # k} \cup {<<k, v>>}

\* The orders in which a dict with key set S may be iterated.
Orders(S) ==
    {o \in [1..Cardinality(S) -> S] : \A i, j \in 1..Cardinality(S) : i # j => o[i] # o[j]}

Get(d, k) == (CHOOSE item \in d : item[1] = k)[2]

(***************************************************************************)
(* read_keywords                                                           *)
(***************************************************************************)
\* re.search(r'^\[.*]$', text): text has no newline here, so the pattern asks for a
\* leading '[' and a trailing ']'.
block_flag(text) == Len(text) >= 2 /\ text[1] = "[" /\ text[Len(text)] = "]"

\* The loop body without the len(keywords) > 0 test at a header: a block that got no
\* keywords is stored with an empty dict.
parse_line_keep_empty(st, line) ==
    LET text == rstrip(line)
    IN  IF text = <<>> THEN st
        ELSE IF block_flag(text) THEN
            [blocks |-> IF st.current_block # PyNone
                        THEN DictSet(st.blocks, st.current_block, st.keywords)
                        ELSE st.blocks,
             first_is_none |-> st.first_is_none /\ ~(st.keywords # {}),
             first_keywords |-> IF st.first_is_none /\ st.keywords # {}
                                THEN st.keywords ELSE st.first_keywords,
             current_block |-> SubSeq(text, 2, Len(text) - 1),
             keywords |-> {}]
        ELSE LET idx == find(text, ":")
                 key == IF idx = 0 THEN strip(text) ELSE SubSeq(text, 1, idx - 1)
                 val == IF idx = 0 THEN PyNone ELSE strip(SubSeq(text, idx + 1, Len(text)))
             IN  [st EXCEPT !.keywords = DictSet(st.keywords, key, val)]

\* The loop body without the "must have a current block" test at a header: keywords
\* collected before the first header are stored under the name None.
parse_line_orphans(st, line) ==
    LET text == rstrip(line)
    IN  IF text = <<>> THEN st
        ELSE IF block_flag(text) THEN
            [blocks |-> IF st.keywords # {}
                        THEN DictSet(st.blocks, st.current_block, st.keywords)
                        ELSE st.blocks,
             first_is_none |-> st.first_is_none /\ ~(st.keywords # {}),
             first_keywords |-> IF st.first_is_none /\ st.keywords # {}
                                THEN st.keywords ELSE st.first_keywords,
             current_block |-> SubSeq(text, 2, Len(text) - 1),
             keywords |-> {}]
        ELSE LET idx == find(text, ":")
                 key == IF idx = 0 THEN strip(text) ELSE SubSeq(text, 1, idx - 1)
                 val == IF idx = 0 THEN PyNone ELSE strip(SubSeq(text, idx + 1, Len(text)))
             IN  [st EXCEPT !.keywords = DictSet(st.keywords, key, val)]

\* One pass of the loop body over a line; st holds the loop's local variables.
parse_line(st, line) ==
    LET text == rstrip(line)
    IN  IF text = <<>> THEN st
        ELSE IF block_flag(text) THEN
            [blocks |-> IF st.keywords # {} /\ st.current_block # PyNone
                        THEN DictSet(st.blocks, st.current_block, st.keywords)
                        ELSE st.blocks,
             first_is_none |-> st.first_is_none /\ ~(st.keywords # {}),
             first_keywords |-> IF st.first_is_none /\ st.keywords # {}
                                THEN st.keywords ELSE st.first_keywords,
             current_block |-> SubSeq(text, 2, Len(text) - 1),
             keywords |-> {}]
        ELSE LET idx == find(text, ":")
                 key == IF idx = 0 THEN strip(text) ELSE SubSeq(text, 1, idx - 1)
                 val == IF idx = 0 THEN PyNone ELSE strip(SubSeq(text, idx + 1, Len(text)))
             IN  [st EXCEPT !.keywords = DictSet(st.keywords, key, val)]

RECURSIVE parse_lines(_, _)
parse_lines(st, lines) ==
    IF lines = <<>> THEN st
    ELSE parse_lines(parse_line(st, Head(lines)), Tail(lines))

parse_start ==
    [blocks |-> {}, keywords |-> {}, current_block |-> PyNone,
     first_is_none |-> TRUE, first_keywords |-> {}]

\* The locals after the loop and the "write out any unfinalised block data" lines.
parse_file(data) ==
    LET st == parse_lines(parse_start, readlines(data))
    IN  [blocks |-> IF st.keywords # {} /\ st.current_block # PyNone
                    THEN DictSet(st.blocks, st.current_block, st.keywords)
                    ELSE st.blocks,
         first_keywords |-> IF st.first_is_none THEN st.keywords ELSE st.first_keywords]

\* The value read_keywords returns (the extension is checked by the caller of this
\* operator): [tag |-> "dict", val |-> ...] or [tag |-> "None"] when the function falls
\* off its end.
ReturnDict(d) == [tag |-> "dict", val |-> d]
ReturnNone == [tag |-> "None", val |-> {}]

read_keywords(f, sublayer, all_blocks) ==
    IF ~f.exists THEN ReturnDict({})
    ELSE LET p == parse_file(f.data)
         IN  IF all_blocks THEN ReturnDict(p.blocks)
             ELSE IF sublayer # PyNone
                  THEN IF sublayer \in Keys(p.blocks)
                       THEN ReturnDict(Get(p.blocks, sublayer))
                       ELSE ReturnNone
                  ELSE ReturnDict(p.first_keywords)

(***************************************************************************)
(* _keywords_to_string and write_keywords                                  *)
(***************************************************************************)
\* verify(isinstance(k, basestring)), verify(':' not in key) and str(v) for one item.
item_raises(item) ==
    \/ ~isinstance_basestring(item[1])
    \/ find(item[1], ":") # 0
    \/ str_raises(item[2])

\* A writer that gives a None value no ':' (a bare key line) instead of str(None).
item_line_bare_none(item) ==
    IF item[2] = PyNone THEN item[1] \o <<"\n">>
    ELSE item[1] \o <<":", " ">> \o str(item[2]) \o <<"\n">>

\* '%s: %s\n' % (key, val)
item_line(item) == item[1] \o <<":", " ">> \o str(item[2]) \o <<"\n">>

RECURSIVE item_lines(_, _)
item_lines(keywords, order) ==
    IF order = <<>> THEN <<>>
    ELSE item_line(<<Head(order), Get(keywords, Head(order))>>)
             \o item_lines(keywords, Tail(order))

\* _keywords_to_string(keywords, sublayer) when the dict is iterated in the given order:
\* the string is built in memory and returned only if no item raises.
keywords_to_string(keywords, sublayer, order) ==
    [raised |-> \E item \in keywords : item_raises(item),
     text |-> (IF sublayer # PyNone THEN <<"[">> \o sublayer \o <<"]", "\n">> ELSE <<>>)
                  \o item_lines(keywords, order)]

\* The possible results of one handle.write(_keywords_to_string(keywords, sublayer)):
\* raised, or the text handed to the handle.
write_one(keywords, sublayer) ==
    {LET r == keywords_to_string(keywords, sublayer, o)
     IN  [raised |-> r.raised, buf |-> IF r.raised THEN <<>> ELSE r.text]
     : o \in Orders(Keys(keywords))}

\* The loop over existing_keywords.iteritems(), visiting the blocks in the given order:
\* each block is written, then '\n'; a raise leaves what was written before it.
\* one[name] holds the possible results of writing the block called name.
RECURSIVE write_blocks(_, _)
write_blocks(one, border) ==
    IF border = <<>> THEN {[raised |-> FALSE, buf |-> <<>>]}
    ELSE LET rest == write_blocks(one, Tail(border))
         IN  {IF h.raised THEN [raised |-> TRUE, buf |-> <<>>]
              ELSE [raised |-> r.raised, buf |-> h.buf \o <<"\n">> \o r.buf]
              : h \in one[Head(border)], r \in rest}

\* multilayer_flag: the first value of a non-empty existing_keywords is always a dict.
multilayer_flag(existing) == existing # {}

\* Everything written to the handle between file(filename, 'wt') and handle.close():
\* the set of possible outcomes [raised, buf].
write_body(existing, keywords, sublayer) ==
    IF multilayer_flag(existing)
    THEN IF sublayer # PyNone /\ sublayer # <<>>
         THEN LET merged == DictSet(existing, sublayer, keywords)
                  one == [name \in Keys(merged) |-> write_one(Get(merged, name), name)]
              IN  UNION {write_blocks(one, border) : border \in Orders(Keys(merged))}
         ELSE write_one(keywords, PyNone)
    ELSE write_one(keywords, sublayer)

\* Opening for update without truncation (mode 'r+'): the content stays.
open_rplus(f) == [exists |-> TRUE, data |-> f.data]

\* file(filename, 'wt'): the file is created or truncated.
open_wt(f) == [exists |-> TRUE, data |-> <<>>]

\* The handle's buffer reaching the file: written from the handle's position 0 over
\* whatever the file holds by then.
flush(buf, f) ==
    [exists |-> TRUE,
     data |-> buf \o SubSeq(f.data, Len(buf) + 1, Len(f.data))]

(***************************************************************************)
(* Inputs                                                                  *)
(***************************************************************************)
\* The model stops adding sublayers to a file that holds MaxBlocks of them.
MaxBlocks == 2

\* The keywords dicts the callers pass: empty, plain ones, a bare key (None), an item
\* whose line starts with '[' and ends with ']', and the three kinds that fail
\* validation (a key with ':', a key that is not a string, a value str() cannot convert).
KeywordChoices ==
    {{},
     {<<<<"a">>, <<"1">>>>},
     {<<<<"a">>, <<"1">>>>, <<<<"b">>, <<>>>>},
     {<<<<"f">>, PyNone>>},
     {<<<<"[">>, <<"]">>>>},
     {<<<<"a", ":">>, <<"1">>>>},
     {<<PyInt, <<"1">>>>},
     {<<<<"a">>, PyUnprintable>>}}

SublayerNames == {<<"x">>, <<"y">>}

\* sublayer=None (the default), sublayer='' and the names.
SublayerArgs == {PyNone, <<>>} \cup SublayerNames

\* The file before the first call: absent, a simple file, a multilayer file.
StartFiles ==
    {[exists |-> FALSE, data |-> <<>>],
     [exists |-> TRUE, data |-> <<"b", "\n">>],
     [exists |-> TRUE, data |-> <<"[", "x", "]", "\n", "a", ":", " ", "1", "\n", "\n",
                                  "[", "y", "]", "\n", "b", "\n", "\n">>]}

(***************************************************************************)
(* Sequential callers: each call runs to completion                        *)
(***************************************************************************)
NoCall == [op |-> "none"]

\* The keys are non-empty strings without ':' or newline, the values are strings without
\* newline and without leading or trailing whitespace.
PlainKeywords(keywords) ==
    \A item \in keywords :
        /\ isinstance_basestring(item[1]) /\ isinstance_basestring(item[2])
        /\ item[1] # <<>>
        /\ find(item[1], ":") = 0 /\ find(item[1], "\n") = 0
        /\ find(item[2], "\n") = 0
        /\ strip(item[2]) = item[2]

\* The history the multilayer round trip is about: fresh holds while the file started
\* absent and every call since was a successful write of non-empty plain keywords to a
\* non-empty sublayer name; blocks maps each such sublayer to the keywords last written.
written_after(w, keywords, sublayer, ext_ok, raised) ==
    IF w.fresh /\ ext_ok /\ ~raised /\ sublayer \notin {PyNone, <<>>}
       /\ keywords # {} /\ PlainKeywords(keywords)
    THEN [fresh |-> TRUE, blocks |-> DictSet(w.blocks, sublayer, keywords)]
    ELSE [fresh |-> FALSE, blocks |-> {}]

TypeOK ==
    /\ file.exists \in BOOLEAN
    /\ Len(handles) <= 1
    /\ last.op \in {"none", "write", "read", "finalize"}

Init ==
    /\ file \in StartFiles
    /\ handles = <<>>
    /\ last = NoCall
    /\ written = [fresh |-> ~file.exists, blocks |-> {}]
    /\ pc = <<>>
    /\ loc = <<>>
    /\ arg = <<>>
    /\ out = <<>>

\* write_keywords(keywords, filename, sublayer) with a wrong extension: verify raises
\* before the file is touched.
WriteBadExtension(keywords, sublayer) ==
    /\ last' = [op |-> "write", keywords |-> keywords, sublayer |-> sublayer,
                ext_ok |-> FALSE, raised |-> TRUE, existing |-> {}]
    /\ written' = written_after(written, keywords, sublayer, FALSE, TRUE)
    /\ UNCHANGED <<file, handles, pc, loc, arg, out>>

\* write_keywords(keywords, filename, sublayer) with a .keywords filename: read the
\* existing blocks, open the file for writing (truncating it), write, close.  When
\* _keywords_to_string raises, the function is left with the handle open: the file
\* stays truncated and the handle keeps what was written to it.  (A handle left open by
\* an earlier call has been finalized by the time the caller writes again: CPython
\* releases it with the frame of the failed call.)
WriteKeywords(keywords, sublayer) ==
    /\ handles = <<>>
    /\ \E existing \in {read_keywords(file, PyNone, TRUE).val} :
        /\ Cardinality(Keys(existing) \cup ({sublayer} \ {PyNone})) <= MaxBlocks
        /\ \E o \in write_body(existing, keywords, sublayer) :
            /\ file' = IF o.raised THEN open_wt(file) ELSE flush(o.buf, open_wt(file))
            /\ handles' = IF o.raised THEN Append(handles, o.buf) ELSE handles
            /\ last' = [op |-> "write", keywords |-> keywords, sublayer |-> sublayer,
                        ext_ok |-> TRUE, raised |-> o.raised,
                        existing |-> Keys(existing)]
            /\ written' = written_after(written, keywords, sublayer, TRUE, o.raised)
            /\ UNCHANGED <<pc, loc, arg, out>>

\* read_keywords(filename, sublayer, all_blocks): the file is opened, read and closed;
\* with a wrong extension verify raises first.
ReadKeywords(sublayer, all_blocks, ext_ok) ==
    /\ last' = [op |-> "read", sublayer |-> sublayer, all_blocks |-> all_blocks,
                ext_ok |-> ext_ok, raised |-> ~ext_ok,
                value |-> IF ext_ok THEN read_keywords(file, sublayer, all_blocks)
                          ELSE ReturnNone]
    /\ UNCHANGED <<file, handles, written, pc, loc, arg, out>>

\* The interpreter finalizes a handle that was left open: its buffer is flushed and the
\* handle closed.
FinalizeHandle ==
    /\ handles # <<>>
    /\ file' = flush(Head(handles), file)
    /\ handles' = Tail(handles)
    /\ last' = [op |-> "finalize"]
    /\ written' = [fresh |-> FALSE, blocks |-> {}]
    /\ UNCHANGED <<pc, loc, arg, out>>

Next ==
    \/ \E keywords \in {{<<<<"f">>, PyNone>>}}, sublayer \in {PyNone} :
           WriteBadExtension(keywords, sublayer)
    \/ \E keywords \in KeywordChoices, sublayer \in SublayerArgs :
           WriteKeywords(keywords, sublayer)
    \/ \E sublayer \in {PyNone} \cup SublayerNames :
           ReadKeywords(sublayer, FALSE, TRUE)
    \/ ReadKeywords(PyNone, TRUE, TRUE)
    \/ ReadKeywords(PyNone, FALSE, FALSE)
    \/ FinalizeHandle

Spec == Init /\ [][Next]_vars

(***************************************************************************)
(* Reading files of any content                                            *)
(***************************************************************************)
MaxInitLines == 3

\* Lines a keywords file may hold when it was not written by write_keywords: data
\* lines, a bare key, headers, a blank line.
InitLines ==
    {<<"a", ":", " ", "1", "\n">>, <<"b", "\n">>, <<"c", ":", "2", " ", "\n">>,
     <<"[", "x", "]", "\n">>, <<"[", "y", "]", "\n">>, <<"\n">>}

RECURSIVE concat(_)
concat(ss) == IF ss = <<>> THEN <<>> ELSE Head(ss) \o concat(Tail(ss))

InitFiles ==
    {[exists |-> FALSE, data |-> <<>>]}
        \cup {[exists |-> TRUE, data |-> concat(ls)] :
                ls \in UNION {[1..n -> InitLines] : n \in 0..MaxInitLines}}

InitParse ==
    /\ file \in InitFiles
    /\ handles = <<>>
    /\ last = NoCall
    /\ written = [fresh |-> FALSE, blocks |-> {}]
    /\ pc = <<>>
    /\ loc = <<>>
    /\ arg = <<>>
    /\ out = <<>>

NextParse ==
    \/ \E sublayer \in {PyNone} \cup SublayerNames :
           ReadKeywords(sublayer, FALSE, TRUE)
    \/ ReadKeywords(PyNone, TRUE, TRUE)
    \/ ReadKeywords(PyNone, FALSE, FALSE)

SpecParse == InitParse /\ [][NextParse]_vars

(***************************************************************************)
(* Claims about the keyword store                                          *)
(***************************************************************************)
\* The step is a completed read_keywords call with a .keywords filename.
ReadStep == last'.op = "read" /\ last'.ext_ok

DefaultRead == last'.sublayer = PyNone /\ ~last'.all_blocks

\* The state before the step is the one a successful write_keywords call left.
AfterWrite == last.op = "write" /\ last.ext_ok /\ ~last.raised

\* C1 (as claimed): after write_keywords(keywords, f) with no sublayer, for keywords
\* whose keys are non-empty strings without ':' or newline and whose values are
\* strings without newline or surrounding whitespace, read_keywords(f) returns keywords.
C1_SimpleRoundTrip ==
    [][(AfterWrite /\ last.sublayer = PyNone /\ PlainKeywords(last.keywords)
          /\ ReadStep /\ DefaultRead)
       => last'.value = ReturnDict(last.keywords)]_vars

\* C2 (as claimed): starting from an absent file, after any sequence of writes of
\* non-empty plain keywords to non-empty sublayer names, read_keywords(f,
\* all_blocks=True) returns exactly the sublayers written with their latest keywords,
\* and read_keywords(f, sublayer=s) returns the keywords of s.
C2_MultilayerRoundTrip ==
    [][(written.fresh /\ written.blocks # {} /\ ReadStep)
       => /\ last'.all_blocks => last'.value = ReturnDict(written.blocks)
          /\ (~last'.all_blocks /\ last'.sublayer \in Keys(written.blocks))
                => last'.value = ReturnDict(Get(written.blocks, last'.sublayer))]_vars

\* C3 (as claimed): after write_keywords(new_kw, f) with sublayer None or '' on a file
\* that held named blocks, all_blocks returns no blocks, every previous sublayer reads
\* as nothing, and read_keywords(f) returns new_kw (new_kw taken plain, as in C1).
C3_DestructiveCollapse ==
    [][(AfterWrite /\ last.sublayer \in {PyNone, <<>>} /\ last.existing # {}
          /\ PlainKeywords(last.keywords) /\ ReadStep)
       => /\ last'.all_blocks => last'.value = ReturnDict({})
          /\ (~last'.all_blocks /\ last'.sublayer \in last.existing)
                => last'.value = ReturnNone
          /\ DefaultRead => last'.value = ReturnDict(last.keywords)]_vars

\* C4 (as claimed): a write_keywords call that fails a validation check leaves the
\* content of an existing file as it was before the call.
C4_NoMutationOnFailedValidation ==
    [][(last'.op = "write" /\ last'.raised /\ file.exists) => file' = file]_vars

\* C5 (as claimed): write_keywords({'foo': None}, f) then read_keywords(f) returns
\* 'foo' with an absent (None) value.
C5_BareKeyRoundTrip ==
    [][(AfterWrite /\ last.sublayer = PyNone /\ ReadStep /\ DefaultRead)
       => \A item \in last.keywords : item[2] = PyNone => item \in last'.value.val]_vars

\* The keywords have only None values, under keys that pass validation.
NoneValued(keywords) ==
    /\ keywords # {}
    /\ \A item \in keywords :
          /\ item[2] = PyNone
          /\ isinstance_basestring(item[1]) /\ item[1] # <<>>
          /\ find(item[1], ":") = 0 /\ find(item[1], "\n") = 0
          /\ strip(item[1]) = item[1]

\* C5 (amended): a key whose value is None is written as the line 'key: None', so
\* write_keywords({'foo': None}, f) then read_keywords(f) returns 'foo' with the string
\* 'None'; the absent value is only read from a line that has no ':'.
C5_NoneReadsBackAsString ==
    [][(AfterWrite /\ last.sublayer = PyNone /\ NoneValued(last.keywords)
          /\ ReadStep /\ DefaultRead)
       => last'.value = ReturnDict({<<item[1], <<"N", "o", "n", "e">>>> : item \in last.keywords})]_vars

C5_Witness ==
    /\ last.op = "read" /\ last.ext_ok /\ last.sublayer = PyNone /\ ~last.all_blocks
    /\ file.data = <<"f", ":", " ", "N", "o", "n", "e", "\n">>
    /\ last.value = ReturnDict({<<<<"f">>, <<"N", "o", "n", "e">>>>})

\* The non-blank lines of the file, stripped on the right, and the places of the headers.
TextLines(data) ==
    SelectSeq([i \in 1..Len(readlines(data)) |-> rstrip(readlines(data)[i])],
              LAMBDA t : t # <<>>)

HeaderAt(lines) == {i \in 1..Len(lines) : block_flag(lines[i])}

Min(S) == CHOOSE i \in S : \A j \in S : i <= j

\* The keywords on the data lines lines[from..to].
DataKeywords(lines, from, to) == parse_lines(parse_start, SubSeq(lines, from, to)).keywords

\* The keywords of the first [name] block of the file: the data lines between the
\* first header and the next one (or the end).
FirstBlockKeywords(lines) ==
    LET h == Min(HeaderAt(lines))
        later == {i \in HeaderAt(lines) : i > h}
    IN  DataKeywords(lines, h + 1, IF later = {} THEN Len(lines) ELSE Min(later) - 1)

\* C6 (as claimed): read_keywords(f) returns the keywords of the first block whenever
\* the file has a header, and the keywords before any header only when it has none.
C6_DefaultReturn ==
    (last.op = "read" /\ last.ext_ok /\ last.sublayer = PyNone /\ ~last.all_blocks
       /\ file.exists)
    => LET lines == TextLines(file.data)
       IN  last.value = ReturnDict(IF HeaderAt(lines) # {}
                                   THEN FirstBlockKeywords(lines)
                                   ELSE DataKeywords(lines, 1, Len(lines)))

(***************************************************************************)
(* Concurrent writers: two write_keywords calls on the same file            *)
(***************************************************************************)
Writers == {1, 2}

\* The multilayer files the two calls start from.
ConcFiles ==
    {[exists |-> TRUE, data |-> <<"[", "y", "]", "\n", "b", ":", " ", "1", "\n", "\n">>],
     [exists |-> TRUE, data |-> <<"[", "x", "]", "\n", "a", ":", " ", "1", "\n", "\n",
                                  "[", "y", "]", "\n", "b", ":", " ", "1", "\n", "\n">>]}

\* The keywords the two calls pass: all pass validation.
ConcKeywords ==
    {{<<<<"a">>, <<"2">>>>},
     {<<<<"c">>, <<"3">>>>},
     {<<<<"c">>, <<"3">>>>, <<<<"d">>, <<"4">>>>}}

NotCalled == [keywords |-> {}, sublayer |-> PyNone, existing |-> {}, before |-> {}]

InitConc ==
    /\ file \in ConcFiles
    /\ handles = <<>>
    /\ last = NoCall
    /\ written = [fresh |-> FALSE, blocks |-> {}]
    /\ pc = [w \in Writers |-> "idle"]
    /\ loc = [w \in Writers |-> NotCalled]
    /\ arg = <<>>
    /\ out = <<>>

\* Writer w enters write_keywords(keywords, filename, sublayer): the extension is
\* verified and the existing blocks are read (the file is opened, read and closed).
ConcReadExisting(w, keywords, sublayer) ==
    /\ pc[w] = "idle"
    /\ pc' = [pc EXCEPT ![w] = "read"]
    /\ loc' = [loc EXCEPT ![w] = [keywords |-> keywords, sublayer |-> sublayer,
                                  existing |-> read_keywords(file, PyNone, TRUE).val,
                                  before |-> {}]]
    /\ UNCHANGED <<file, handles, last, written, arg, out>>

\* handle = file(filename, 'wt'): the file is truncated.  before records the writers
\* whose call had returned by then.
ConcOpen(w) ==
    /\ pc[w] = "read"
    /\ file' = open_wt(file)
    /\ pc' = [pc EXCEPT ![w] = "opened"]
    /\ loc' = [loc EXCEPT ![w].before = {v \in Writers : pc[v] = "done"}]
    /\ UNCHANGED <<handles, last, written, arg, out>>

\* The blocks are written to the handle and the handle is closed: the buffer reaches
\* the file.  When _keywords_to_string raises the handle stays open.
ConcWriteClose(w) ==
    /\ pc[w] = "opened"
    /\ \E o \in write_body(loc[w].existing, loc[w].keywords, loc[w].sublayer) :
        /\ file' = IF o.raised THEN file ELSE flush(o.buf, file)
        /\ handles' = IF o.raised THEN Append(handles, o.buf) ELSE handles
        /\ pc' = [pc EXCEPT ![w] = IF o.raised THEN "raised" ELSE "done"]
    /\ UNCHANGED <<loc, last, written, arg, out>>

NextConc ==
    \/ \E w \in Writers, keywords \in ConcKeywords, sublayer \in SublayerNames :
           ConcReadExisting(w, keywords, sublayer)
    \/ \E w \in Writers : ConcOpen(w)
    \/ \E w \in Writers : ConcWriteClose(w)

SpecConc == InitConc /\ [][NextConc]_vars

\* The file shows the update of writer w: its sublayer holds the keywords it passed.
UpdateIn(blocks, w) == <<loc[w].sublayer, loc[w].keywords>> \in blocks

\* Writer v's call returned before writer w opened the file, w read the existing blocks
\* before v's update was in the file, and both calls have returned.
ReadBeforeOverwrite(v, w) ==
    /\ pc[v] = "done" /\ pc[w] = "done"
    /\ loc[v].sublayer # loc[w].sublayer
    /\ v \in loc[w].before
    /\ ~UpdateIn(loc[w].existing, v)

\* C7: write_keywords takes no lock and reads the existing blocks in a step apart from
\* the overwrite, so when two calls for different sublayers interleave (the second
\* reads before the first has written, and overwrites after it), both return
\* successfully and the file lacks the first writer's update.
C7_LostUpdate ==
    \A v \in Writers, w \in Writers :
        ReadBeforeOverwrite(v, w)
        => /\ ~UpdateIn(read_keywords(file, PyNone, TRUE).val, v)
           /\ UpdateIn(read_keywords(file, PyNone, TRUE).val, w)

C7_Witness ==
    /\ ReadBeforeOverwrite(1, 2)
    /\ ~UpdateIn(loc[1].existing, 2)
    /\ read_keywords(file, PyNone, TRUE).val
          = DictSet(loc[2].existing, loc[2].sublayer, loc[2].keywords)
    /\ ~UpdateIn(read_keywords(file, PyNone, TRUE).val, 1)

(***************************************************************************)
(* Geometry: bbox_intersection                                             *)
(***************************************************************************)
\* The keyword store is not touched by the geometry functions.
StoreIdle ==
    /\ file = [exists |-> FALSE, data |-> <<>>]
    /\ handles = <<>>
    /\ last = NoCall
    /\ written = [fresh |-> FALSE, blocks |-> {}]
    /\ pc = <<>>
    /\ loc = <<>>

\* What a call produced: a value, None, or an exception.
Returned(v) == [tag |-> "return", val |-> <<v>>]
ReturnedNone == [tag |-> "None", val |-> <<>>]
Raised == [tag |-> "raise", val |-> <<>>]
NotCalledYet == [tag |-> "none", val |-> <<>>]

max(a, b) == IF a >= b THEN a ELSE b
min(a, b) == IF a <= b THEN a ELSE b

\* result = [-180, -90, 180, 90]
UniversalBox == <<-180, -90, 180, 90>>

\* An argument list(a) cannot convert.
NotIterable == <<"<not iterable>">>

\* The checks on one argument: list(a) works, four coordinates, W < E, S < N.
box_ok(a) ==
    /\ a # NotIterable
    /\ Len(a) = 4
    /\ a[1] < a[3]
    /\ a[2] < a[4]

\* "Compute intersection": one pass of the loop body over a checked box.
intersect(result, box) ==
    <<max(result[1], box[1]), max(result[2], box[2]),
      min(result[3], box[3]), min(result[4], box[4])>>

\* The loop over args: the first argument failing a check raises.
RECURSIVE bbox_loop(_, _)
bbox_loop(result, args) ==
    IF args = <<>> THEN [raised |-> FALSE, result |-> result]
    ELSE IF ~box_ok(Head(args)) THEN [raised |-> TRUE, result |-> result]
    ELSE bbox_loop(intersect(result, Head(args)), Tail(args))

\* A validity check that lets a box of no width or no height through.
result_valid_or_flat(result) == result[1] <= result[3] /\ result[2] <= result[4]

\* "Check validity and return"
result_valid(result) == result[1] < result[3] /\ result[2] < result[4]

bbox_intersection(args) ==
    IF ~(Len(args) > 1) THEN Raised
    ELSE LET r == bbox_loop(UniversalBox, args)
         IN  IF r.raised THEN Raised
             ELSE IF result_valid(r.result) THEN Returned(r.result)
             ELSE ReturnedNone

MaxBoxes == 2

\* Coordinates inside and outside the universal box.
\* The arguments: boxes in order and out of order, a triple, something not iterable.
BoxArgs ==
    {<<w, s, e, n>> : w \in {-200, 0, 10}, e \in {10, 200}, s \in {-100, 0}, n \in {0, 95}}
        \cup {<<0, 0, 10>>, NotIterable}

\* The caller's argument list: up to MaxBoxes arguments.
InitBBox ==
    /\ StoreIdle
    /\ arg \in UNION {[1..n -> BoxArgs] : n \in 0..MaxBoxes}
    /\ out = NotCalledYet

BBoxIntersection ==
    /\ out = NotCalledYet
    /\ out' = bbox_intersection(arg)
    /\ UNCHANGED <<file, handles, last, written, pc, loc, arg>>

NextBBox == BBoxIntersection

SpecBBox == InitBBox /\ [][NextBBox]_vars

SetMax(S) == CHOOSE a \in S : \A b \in S : a >= b
SetMin(S) == CHOOSE a \in S : \A b \in S : a <= b

\* Two or more boxes, each with west < east and south < north, were passed.
ValidBoxes ==
    /\ out # NotCalledYet
    /\ Len(arg) > 1
    /\ \A i \in 1..Len(arg) : arg[i] # NotIterable /\ Len(arg[i]) = 4
                                 /\ arg[i][1] < arg[i][3] /\ arg[i][2] < arg[i][4]

\* [max of the wests, max of the souths, min of the easts, min of the norths] over the
\* boxes and the box extra.
CommonBox(extra) ==
    LET bs == {arg[i] : i \in 1..Len(arg)} \cup extra
    IN  <<SetMax({b[1] : b \in bs}), SetMax({b[2] : b \in bs}),
          SetMin({b[3] : b \in bs}), SetMin({b[4] : b \in bs})>>

Degenerate(b) == b[1] >= b[3] \/ b[2] >= b[4]

\* C8 (as claimed): for two or more valid boxes bbox_intersection returns the max of the
\* wests and souths and the min of the easts and norths across the input boxes, and
\* None exactly when that box is degenerate.
C8_CommonBoxOfInputs ==
    ValidBoxes => out = IF Degenerate(CommonBox({})) THEN ReturnedNone
                        ELSE Returned(CommonBox({}))

\* C8 (amended): the max and min are taken across the input boxes and the universal
\* box [-180, -90, 180, 90]: the result is the part of the common box inside it, and
\* None exactly when that part is degenerate.
C8_CommonBoxInsideUniversal ==
    ValidBoxes => out = IF Degenerate(CommonBox({<<-180, -90, 180, 90>>})) THEN ReturnedNone
                        ELSE Returned(CommonBox({<<-180, -90, 180, 90>>}))

\* Boxes reaching outside the universal box give the clipped box; boxes that only
\* touch give None.
C8_Witness ==
    \/ arg = <<<<-200, -100, 200, 95>>, <<0, 0, 200, 95>>>> /\ out = Returned(<<0, 0, 180, 90>>)
    \/ arg = <<<<0, 0, 10, 95>>, <<10, 0, 200, 95>>>> /\ out = ReturnedNone

(***************************************************************************)
(* Geometry: get_geometry_type                                             *)
(***************************************************************************)
\* ogr.wkbPoint, ogr.wkbLineString, ogr.wkbPolygon
wkbPoint == 1
wkbLineString == 2
wkbPolygon == 3

\* Python values a geometry is made of: a number, a string (str(TRUE) is one float()
\* converts, such as '1.5'), a sequence (list, tuple or array) of values.
Num(n) == [t |-> "num", n |-> n, s |-> <<>>]
Str(numeric) == [t |-> "str", n |-> IF numeric THEN 1 ELSE 0, s |-> <<>>]
Seq_(s) == [t |-> "seq", n |-> 0, s |-> s]

\* The geometry_type argument: None, an integer, a string.
TypeNone == [k |-> "None", n |-> 0, s |-> ""]
TypeInt(n) == [k |-> "int", n |-> n, s |-> ""]
TypeStr(s) == [k |-> "str", n |-> 0, s |-> s]

\* str.lower on the type names the callers pass.
lower(s) ==
    CASE s = "Point" -> "point"
      [] s = "LINE" -> "line"
      [] s = "Polygon" -> "polygon"
      [] s = "Circle" -> "circle"
      [] OTHER -> s

INVERSE_GEOMETRY_TYPE_MAP(s) ==
    CASE s = "point" -> wkbPoint
      [] s = "line" -> wkbLineString
      [] s = "polygon" -> wkbPolygon

\* verify(geometry_type is None or geometry_type in [1, 2, 3] or
\*        geometry_type.lower() in ['point', 'line', 'polygon']): an integer outside
\* [1, 2, 3] has no lower(), which raises as well.
geometry_type_ok(geometry_type) ==
    \/ geometry_type.k = "None"
    \/ geometry_type.k = "int" /\ geometry_type.n \in {1, 2, 3}
    \/ geometry_type.k = "str" /\ lower(geometry_type.s) \in {"point", "line", "polygon"}

\* True for lists, tuples and arrays, False for strings (and for what list() rejects).
is_sequence(x) == x.t = "seq"

\* float(x) converts numbers and numeric strings, not sequences.
float_ok(x) == x.t = "num" \/ (x.t = "str" /\ x.n = 1)

\* numpy.array(x).shape: (N, L) when x holds N sequences of the same length L, else (N,).
shape(x) ==
    IF /\ x.s # <<>>
       /\ \A i \in 1..Len(x.s) : is_sequence(x.s[i]) /\ Len(x.s[i].s) = Len(x.s[1].s)
    THEN <<Len(x.s), Len(x.s[1].s)>>
    ELSE <<Len(x.s)>>

\* Looking at the whole geometry where the code looks at its first element.
whole_geometry(geometry) == geometry

\* geometry[0]
first_element(geometry) == geometry.s[1]

\* The determination from the data, after the checks on geometry[0]; an array with one
\* axis has no shape[1], which raises.
type_from_first(g0) ==
    IF Len(g0.s) = 2
    THEN IF float_ok(g0.s[1]) /\ float_ok(g0.s[2]) THEN Returned(wkbPoint) ELSE Raised
    ELSE IF Len(shape(g0)) < 2 THEN Raised
    ELSE IF shape(g0)[1] > 2 /\ shape(g0)[2] = 2 THEN Returned(wkbPolygon)
    ELSE Raised

get_geometry_type(geometry, geometry_type) ==
    IF ~geometry_type_ok(geometry_type) THEN Raised
    ELSE IF geometry_type.k = "str"
    THEN Returned(INVERSE_GEOMETRY_TYPE_MAP(lower(geometry_type.s)))
    ELSE IF geometry_type.k = "int" THEN Returned(geometry_type.n)
    ELSE IF ~is_sequence(geometry) THEN Raised
    ELSE IF Len(geometry.s) = 0 THEN Returned(wkbPoint)
    ELSE IF ~is_sequence(first_element(geometry)) THEN Raised
    ELSE IF ~(Len(first_element(geometry).s) >= 2) THEN Raised
    ELSE type_from_first(first_element(geometry))

MaxVertices == 3
MaxGeometry == 3

Atoms == {Num(1), Num(2), Str(FALSE), Str(TRUE)}
NumericPairs == {Seq_(<<Num(1), Num(2)>>), Seq_(<<Num(2), Num(1)>>)}

\* Sequences of 2 to MaxVertices numeric pairs.
Rings == {Seq_(ps) : ps \in UNION {[1..n -> NumericPairs] : n \in 2..MaxVertices}}

\* What the first element of a geometry may be: a number or string, a pair, a
\* sequence of one or of three numbers, pairs of unequal length, a ring.
Elements ==
    Atoms \cup {Seq_(<<a, b>>) : a \in Atoms, b \in {Num(1), Str(FALSE)}}
          \cup {Seq_(<<Num(1)>>), Seq_(<<Num(1), Num(2), Num(1)>>),
                Seq_(<<Seq_(<<Num(1), Num(2)>>), Seq_(<<Num(2), Num(1)>>),
                       Seq_(<<Num(1), Num(2), Num(1)>>)>>)}
          \cup Rings

\* The geometry argument: a string, or a sequence of up to MaxGeometry elements (the
\* elements after the first are pairs or rings).
Geometries ==
    {Str(FALSE), Seq_(<<>>)}
        \cup {Seq_(<<e>> \o rest) :
                e \in Elements,
                rest \in UNION {[1..n -> NumericPairs
                                         \cup {Seq_(<<Seq_(<<Num(1), Num(2)>>), Seq_(<<Num(2), Num(1)>>),
                                                      Seq_(<<Num(1), Num(2)>>)>>)}]
                                : n \in 0..(MaxGeometry - 1)}}

GeometryTypes ==
    {TypeNone, TypeInt(1), TypeInt(3), TypeInt(4), TypeStr("line"), TypeStr("Polygon"),
     TypeStr("Circle")}

InitGeomType ==
    /\ StoreIdle
    /\ arg \in [geometry : Geometries, geometry_type : GeometryTypes]
    /\ out = NotCalledYet

GetGeometryType ==
    /\ out = NotCalledYet
    /\ out' = get_geometry_type(arg.geometry, arg.geometry_type)
    /\ UNCHANGED <<file, handles, last, written, pc, loc, arg>>

NextGeomType == GetGeometryType

SpecGeomType == InitGeomType /\ [][NextGeomType]_vars

\* x is a numeric (x, y) pair.
NumericPair(x) == x.t = "seq" /\ Len(x.s) = 2 /\ x.s[1].t = "num" /\ x.s[2].t = "num"

\* x is a sequence of more than two numeric pairs.
PairSequence(x) ==
    x.t = "seq" /\ Len(x.s) > 2 /\ \A i \in 1..Len(x.s) : NumericPair(x.s[i])

InferredCall == out # NotCalledYet /\ arg.geometry_type = TypeNone

\* C9 (as claimed): with no explicit type, get_geometry_type([], None) is Point and a
\* geometry given as a sequence of N > 2 numeric pairs is Polygon.
C9_PairSequenceIsPolygon ==
    InferredCall
    => /\ arg.geometry = Seq_(<<>>) => out = Returned(1)
       /\ PairSequence(arg.geometry) => out = Returned(3)

\* C9 (amended): with no explicit type, get_geometry_type([], None) is Point and only
\* the first element of a non-empty geometry decides: a geometry whose first element
\* is a numeric pair (so any sequence of numeric pairs) is Point, and one whose first
\* element is a sequence of N > 2 numeric pairs is Polygon.
C9_FirstElementDecides ==
    InferredCall
    => /\ arg.geometry = Seq_(<<>>) => out = Returned(1)
       /\ (arg.geometry.t = "seq" /\ arg.geometry.s # <<>>)
            => /\ NumericPair(arg.geometry.s[1]) => out = Returned(1)
               /\ PairSequence(arg.geometry.s[1]) => out = Returned(3)

C9_Witness ==
    /\ InferredCall
    /\ arg.geometry.t = "seq" /\ Len(arg.geometry.s) = 1
    /\ PairSequence(arg.geometry.s[1])
    /\ out = Returned(3)

(***************************************************************************)
(* Geometry: points_between_points                                         *)
(***************************************************************************)
\* The model takes segments whose length L is an integer, and integer delta.  A point
\* of the result is kept as the pair of its coordinates multiplied by L, which makes
\* point1 + uu * n * delta the integer pair below (uu = (x1 - x0, y1 - y0) / L).
MaxCoord == 10
MaxDelta == 4

\* math.sqrt of a perfect square.
sqrt(d2) == CHOOSE r \in 0..(2 * MaxCoord + 2) : r * r = d2

IsSquare(d2) == \E r \in 0..(2 * MaxCoord + 2) : r * r = d2

\* L = math.sqrt(math.pow((x1 - x0), 2) + math.pow((y1 - y0), 2))
length(point1, point2) ==
    sqrt((point2[1] - point1[1]) * (point2[1] - point1[1])
            + (point2[2] - point1[2]) * (point2[2] - point1[2]))

\* int(L / delta): the quotient truncated towards zero.
pieces(L, delta) == IF delta > 0 THEN L \div delta ELSE -(L \div (-delta))

\* point1 + uu * n * delta, times L.
point_at(point1, point2, L, n, delta) ==
    <<point1[1] * L + (point2[1] - point1[1]) * n * delta,
      point1[2] * L + (point2[2] - point1[2]) * n * delta>>

\* range(pieces), counted from 1: empty when pieces is not positive.
range(n) == 1..(IF n > 0 THEN n ELSE 0)

\* Dividing by a zero delta raises; a segment of length 0 has pieces = 0 and gives
\* [point1] (kept unscaled, L being 0).
points_between_points(point1, point2, delta) ==
    LET L == length(point1, point2)
    IN  IF delta = 0 THEN Raised
        ELSE IF L = 0 THEN Returned(<<point1>>)
        ELSE Returned(<<point_at(point1, point2, L, 0, delta)>>
                        \o [nn \in range(pieces(L, delta)) |->
                                point_at(point1, point2, L, nn, delta)])

Coords == 0..MaxCoord

\* The end points lie on the grid, on one of its axes or on the line the segment
\* (0, 0)-(3, 4) lies on.
GridPoints == {<<x, 0>> : x \in Coords} \cup {<<0, y>> : y \in Coords} \cup {<<3, 4>>, <<6, 8>>}

InitPoints ==
    /\ StoreIdle
    /\ arg \in {a \in [point1 : GridPoints, point2 : GridPoints, delta : -1..MaxDelta] :
                  IsSquare((a.point2[1] - a.point1[1]) * (a.point2[1] - a.point1[1])
                              + (a.point2[2] - a.point1[2]) * (a.point2[2] - a.point1[2]))}
    /\ out = NotCalledYet

PointsBetweenPoints ==
    /\ out = NotCalledYet
    /\ out' = points_between_points(arg.point1, arg.point2, arg.delta)
    /\ UNCHANGED <<file, handles, last, written, pc, loc, arg>>

NextPoints == PointsBetweenPoints

SpecPoints == InitPoints /\ [][NextPoints]_vars

\* The n = 1, 2, ... whose travelled distance n * delta is strictly less than L.
StrictlyInside(L, delta) == {n \in 1..L : n * delta < L}

\* C10 (as claimed): for delta > 0 and p1 # p2 the result is p1 followed by the points
\* p1 + unit(p2 - p1) * n * delta for exactly the n >= 1 with n * delta strictly less
\* than the segment length L, in increasing n.
C10_StrictlyLessThanLength ==
    (out # NotCalledYet /\ arg.delta > 0 /\ arg.point1 # arg.point2)
    => LET L == length(arg.point1, arg.point2)
       IN  out = Returned([i \in 1..(1 + Cardinality(StrictlyInside(L, arg.delta))) |->
                              point_at(arg.point1, arg.point2, L, i - 1, arg.delta)])

(***************************************************************************)
(* Geometry: raster_geometry2geotransform and geotransform2bbox            *)
(***************************************************************************)
\* Longitudes and latitudes are integers; dx / 2 and dy / 2 are halves, so the
\* geotransform raster_geometry2geotransform returns is kept as the 6-tuple of its
\* entries multiplied by 2.  geotransform2bbox is linear in the geotransform, so the
\* box it makes of such a tuple is the box multiplied by 2 as well.
MaxSamples == 3

\* Gridline registration: the origin is left on the first sample.
raster_geometry2geotransform_gridline(longitudes, latitudes) ==
    IF ~(Len(longitudes) > 1) \/ ~(Len(latitudes) > 1) THEN Raised
    ELSE Returned(<<2 * longitudes[1], 2 * (longitudes[2] - longitudes[1]), 0,
                    2 * latitudes[Len(latitudes)], 0, 2 * (latitudes[1] - latitudes[2])>>)

\* verify(nx > 1), verify(ny > 1); dx = longitudes[1] - longitudes[0],
\* dy = latitudes[0] - latitudes[1]; (longitudes[0] - dx / 2, dx, 0,
\* latitudes[-1] - dy / 2, 0, dy), every entry times 2.
raster_geometry2geotransform(longitudes, latitudes) ==
    IF ~(Len(longitudes) > 1) \/ ~(Len(latitudes) > 1) THEN Raised
    ELSE LET dx == longitudes[2] - longitudes[1]
             dy == latitudes[1] - latitudes[2]
         IN  Returned(<<2 * longitudes[1] - dx, 2 * dx, 0,
                        2 * latitudes[Len(latitudes)] - dy, 0, 2 * dy>>)

\* [minx, miny, maxx, maxy]
geotransform2bbox(geotransform, columns, rows) ==
    <<geotransform[1],
      geotransform[4] + rows * geotransform[6],
      geotransform[1] + columns * geotransform[2],
      geotransform[4]>>

\* Sample vectors: 1 to MaxSamples coordinates, evenly spaced or not, in any order.
SampleCoords == {0, 1, 2, 4}
SampleVectors == UNION {[1..n -> SampleCoords] : n \in 1..MaxSamples}

\* Direct calls of geotransform2bbox (the geotransform as it is, not doubled).
DirectTransforms ==
    {<<x, rx, 0, y, 0, ry>> : x \in {0, 5}, rx \in {1, 2}, y \in {0, 10}, ry \in {-1, -2}}

InitTransform ==
    /\ StoreIdle
    /\ \/ arg \in [op : {"raster"}, longitudes : SampleVectors, latitudes : SampleVectors]
       \/ arg \in [op : {"bbox"}, geotransform : DirectTransforms,
                   columns : {1, 10}, rows : {1, 10}]
    /\ out = NotCalledYet

RasterGeometry2Geotransform ==
    /\ arg.op = "raster"
    /\ out = NotCalledYet
    /\ out' = raster_geometry2geotransform(arg.longitudes, arg.latitudes)
    /\ UNCHANGED <<file, handles, last, written, pc, loc, arg>>

Geotransform2BBox(geotransform, columns, rows) ==
    /\ out' = [tag |-> "bbox", val |-> <<geotransform2bbox(geotransform, columns, rows)>>]
    /\ UNCHANGED <<file, handles, last, written, pc, loc, arg>>

NextTransform ==
    \/ RasterGeometry2Geotransform
    \/ /\ arg.op = "raster"
       /\ out.tag = "return"
       /\ Geotransform2BBox(out.val[1], Len(arg.longitudes), Len(arg.latitudes))
    \/ /\ arg.op = "bbox"
       /\ out = NotCalledYet
       /\ Geotransform2BBox(arg.geotransform, arg.columns, arg.rows)

SpecTransform == InitTransform /\ [][NextTransform]_vars

\* At least 2 samples, ascending, with one spacing throughout.
EvenlySpaced(v) ==
    /\ Len(v) >= 2
    /\ v[2] > v[1]
    /\ \A i \in 1..(Len(v) - 1) : v[i + 1] - v[i] = v[2] - v[1]

\* C11: for evenly spaced ascending longitudes (spacing dx) and latitudes (spacing d),
\* raster_geometry2geotransform gives pixelWidth dx, pixelHeight -d and an origin half a
\* pixel outside the samples, and geotransform2bbox of it with len(lon) columns and
\* len(lat) rows is [lon[0] - dx/2, lat[0] - d/2, lon[-1] + dx/2, lat[-1] + d/2] (all
\* compared times 2); geotransform2bbox((0,1,0,10,0,-1), 10, 10) is [0, 0, 10, 10].
C11_HalfPixelRoundTrip ==
    /\ (arg.op = "raster" /\ EvenlySpaced(arg.longitudes) /\ EvenlySpaced(arg.latitudes)
          /\ out # NotCalledYet)
       => LET lon == arg.longitudes
              lat == arg.latitudes
              dx == lon[2] - lon[1]
              d == lat[2] - lat[1]
          IN  /\ out.tag = "return"
                  => out.val[1] = <<2 * lon[1] - dx, 2 * dx, 0,
                                    2 * lat[Len(lat)] + d, 0, -2 * d>>
              /\ out.tag # "return"
                  => out = [tag |-> "bbox",
                            val |-> <<<<2 * lon[1] - dx, 2 * lat[1] - d,
                                        2 * lon[Len(lon)] + dx, 2 * lat[Len(lat)] + d>>>>]
    /\ (arg = [op |-> "bbox", geotransform |-> <<0, 1, 0, 10, 0, -1>>,
               columns |-> 10, rows |-> 10] /\ out # NotCalledYet)
       => out = [tag |-> "bbox", val |-> <<<<0, 0, 10, 10>>>>]

C11_Witness ==
    /\ arg.op = "raster"
    /\ arg.longitudes = <<0, 2, 4>> /\ arg.latitudes = <<1, 2>>
    /\ out = [tag |-> "bbox", val |-> <<<<-2, 1, 10, 5>>>>]

(***************************************************************************)
(* Geometry: minimal_bounding_box                                          *)
(***************************************************************************)
\* The caller's coordinates and min_res are whole numbers; every number is counted in
\* halves (a whole number is an even count), which makes the division by 2 exact.  A
\* caller passing Python ints gets the integer division of Python 2 in
\* (min_res - delta) / 2; eps is a float in either case.
half(difference, ints) ==
    IF ints THEN 2 * ((difference \div 2) \div 2) ELSE difference \div 2

\* if delta < min_res: d = (min_res - delta) / 2 + eps; low -= d; high += d
grow_axis(low, high, min_res, eps, ints) ==
    IF high - low < min_res
    THEN <<low - (half(min_res - (high - low), ints) + eps),
           high + (half(min_res - (high - low), ints) + eps)>>
    ELSE <<low, high>>

\* bbox = copy.copy(list(bbox)): the box returned is a new list, the caller's list
\* keeps its items.
minimal_bounding_box(bbox, min_res, eps, ints) ==
    LET x == grow_axis(bbox[1], bbox[3], min_res, eps, ints)
        y == grow_axis(bbox[2], bbox[4], min_res, eps, ints)
    IN  [tag |-> "return", val |-> <<<<x[1], y[1], x[2], y[2]>>>>, caller |-> bbox]

\* Boxes and resolutions (even counts) and tolerances, passed as floats or as ints.
InitMinimalBox ==
    /\ StoreIdle
    /\ arg \in [bbox : {<<w, s, e, n>> : w \in {0, 2}, s \in {0, 2}, e \in {2, 4, 6},
                                          n \in {2, 4, 8}},
                min_res : {0, 2, 4, 6}, eps : {0, 1, 2}, ints : BOOLEAN]
    /\ out = NotCalledYet

MinimalBoundingBox ==
    /\ out = NotCalledYet
    /\ out' = minimal_bounding_box(arg.bbox, arg.min_res, arg.eps, arg.ints)
    /\ UNCHANGED <<file, handles, last, written, pc, loc, arg>>

NextMinimalBox == MinimalBoundingBox

SpecMinimalBox == InitMinimalBox /\ [][NextMinimalBox]_vars

\* The axis [low, high] as the claim has it after the call.
GrownAxis(low, high, min_res, eps) ==
    IF high - low < min_res
    THEN <<low - ((min_res - (high - low)) \div 2 + eps),
           high + ((min_res - (high - low)) \div 2 + eps)>>
    ELSE <<low, high>>

\* C12 (as claimed): with eps > 0 the box returned is wider and higher than min_res,
\* an axis shorter than min_res is grown by (min_res - extent)/2 + eps on each side
\* independently of the other axis, and the caller's bbox keeps its values.
C12_ExceedsMinRes ==
    (out # NotCalledYet /\ arg.eps > 0)
    => LET box == out.val[1]
       IN  /\ box[3] - box[1] > arg.min_res
           /\ box[4] - box[2] > arg.min_res
           /\ <<box[1], box[3]>> = GrownAxis(arg.bbox[1], arg.bbox[3], arg.min_res, arg.eps)
           /\ <<box[2], box[4]>> = GrownAxis(arg.bbox[2], arg.bbox[4], arg.min_res, arg.eps)
           /\ out.caller = arg.bbox

(***************************************************************************)
(* Geometry: calculate_polygon_area                                        *)
(***************************************************************************)
\* Coordinates are integers and the area is kept as its double: the value returned
\* stands for numpy.sum(a - b), the division by 2. being left out.
MaxRing == 5

\* The terms with a and b exchanged: y[:-1] * x[1:] - x[:-1] * y[1:].
RECURSIVE shoelace_swapped(_)
shoelace_swapped(P) ==
    IF Len(P) < 2 THEN 0
    ELSE (P[1][2] * P[2][1] - P[1][1] * P[2][2]) + shoelace_swapped(Tail(P))

\* numpy.sum(a - b) with a = x[:-1] * y[1:] and b = y[:-1] * x[1:]
RECURSIVE shoelace(_)
shoelace(P) ==
    IF Len(P) < 2 THEN 0
    ELSE (P[1][1] * P[2][2] - P[1][2] * P[2][1]) + shoelace(Tail(P))

abs(a) == IF a < 0 THEN -a ELSE a

\* P.shape[1] == 2: an empty polygon has no second dimension and points of another
\* length fail the verify; both raise.
calculate_polygon_area(polygon, signed) ==
    IF polygon = <<>> \/ \E i \in 1..Len(polygon) : Len(polygon[i]) # 2 THEN Raised
    ELSE IF signed THEN Returned(shoelace(polygon))
    ELSE Returned(abs(shoelace(polygon)))

RingPoints == {<<0, 0>>, <<1, 0>>, <<1, 1>>, <<0, 1>>, <<2, 1>>}

\* Polygons of up to MaxRing points, closed or not, the empty one and one made of
\* triples.
Polygons ==
    UNION {[1..n -> RingPoints] : n \in 0..MaxRing} \cup {<<<<0, 0, 0>>, <<1, 0, 0>>, <<0, 0, 0>>>>}

InitArea ==
    /\ StoreIdle
    /\ arg \in [polygon : Polygons, signed : BOOLEAN]
    /\ out = NotCalledYet

CalculatePolygonArea ==
    /\ out = NotCalledYet
    /\ out' = calculate_polygon_area(arg.polygon, arg.signed)
    /\ UNCHANGED <<file, handles, last, written, pc, loc, arg>>

NextArea == CalculatePolygonArea

SpecArea == InitArea /\ [][NextArea]_vars

Reversed(P) == [i \in 1..Len(P) |-> P[Len(P) + 1 - i]]

\* A closed ring of coordinate pairs: the first point is the last one.
ClosedRing(P) ==
    /\ Len(P) >= 2
    /\ \A i \in 1..Len(P) : Len(P[i]) = 2
    /\ P[1] = P[Len(P)]

\* The turn at vertex i of a closed ring (the vertex after the last is the second):
\* positive for a left turn.
Turn(P, i) ==
    LET n == Len(P) - 1
        p == P[i]
        q == P[(i % n) + 1]
        r == P[((i + 1) % n) + 1]
    IN  (q[1] - p[1]) * (r[2] - q[2]) - (q[2] - p[2]) * (r[1] - q[1])

\* A triangle or a convex quadrilateral whose vertices are listed counter-clockwise.
CounterClockwise(P) ==
    /\ ClosedRing(P)
    /\ Len(P) \in {4, 5}
    /\ \A i \in 1..(Len(P) - 1) : Turn(P, i) > 0

\* C13: on a closed ring, reversing the vertex order negates the signed area and keeps
\* the unsigned area, which is the absolute value of the signed one; counter-clockwise
\* rings have a positive signed area and clockwise ones a negative one; the unit square
\* [(0,0),(1,0),(1,1),(0,1),(0,0)] has area 1 (2 as kept here).
C13_ReversalNegatesSignedArea ==
    (out # NotCalledYet /\ ClosedRing(arg.polygon))
    => /\ out.tag = "return"
       /\ arg.signed
            => /\ calculate_polygon_area(Reversed(arg.polygon), TRUE) = Returned(-out.val[1])
               /\ CounterClockwise(arg.polygon) => out.val[1] > 0
               /\ CounterClockwise(Reversed(arg.polygon)) => out.val[1] < 0
       /\ ~arg.signed
            => /\ calculate_polygon_area(Reversed(arg.polygon), FALSE) = out
               /\ out.val[1] >= 0
               /\ out.val[1] \in {calculate_polygon_area(arg.polygon, TRUE).val[1],
                                  -calculate_polygon_area(arg.polygon, TRUE).val[1]}
       /\ arg.polygon = <<<<0, 0>>, <<1, 0>>, <<1, 1>>, <<0, 1>>, <<0, 0>>>>
            => out.val[1] = 2

C13_Witness ==
    /\ arg.polygon = <<<<0, 0>>, <<0, 1>>, <<1, 1>>, <<1, 0>>, <<0, 0>>>>
    /\ arg.signed
    /\ out = Returned(-2)

(***************************************************************************)
(* More claims about the keyword store                                     *)
(***************************************************************************)
\* The lines of the file in front of its first header, and the file from that header
\* on (nothing when the file has no header).
FirstHeader(lines) ==
    LET hs == {i \in 1..Len(lines) : block_flag(rstrip(lines[i]))}
    IN  IF hs = {} THEN Len(lines) + 1 ELSE Min(hs)

OrphanKeywords(data) ==
    LET lines == readlines(data)
    IN  parse_lines(parse_start, SubSeq(lines, 1, FirstHeader(lines) - 1)).keywords

FromFirstHeader(data) ==
    LET lines == readlines(data)
    IN  [exists |-> TRUE, data |-> concat(SubSeq(lines, FirstHeader(lines), Len(lines)))]

\* C14: keywords on the data lines in front of the first [name] header are stored
\* under no block name: read_keywords(f, all_blocks=True) and read_keywords(f,
\* sublayer=s) return what they return for the file without those lines, and no block
\* is named None; read_keywords(f) with no sublayer returns them when there are any.
C14_OrphansUnderNoBlock ==
    (last.op = "read" /\ last.ext_ok /\ file.exists)
    => /\ (last.all_blocks \/ last.sublayer # PyNone)
            => last.value = read_keywords(FromFirstHeader(file.data), last.sublayer,
                                          last.all_blocks)
       /\ last.all_blocks => PyNone \notin Keys(last.value.val)
       /\ (~last.all_blocks /\ last.sublayer = PyNone /\ OrphanKeywords(file.data) # {})
            => last.value = ReturnDict(OrphanKeywords(file.data))

C14_Witness ==
    /\ file.data = <<"a", ":", " ", "1", "\n", "[", "x", "]", "\n", "b", "\n">>
    /\ last.op = "read" /\ last.ext_ok /\ last.all_blocks
    /\ last.value = ReturnDict({<<<<"x">>, {<<<<"b">>, PyNone>>}>>})

\* C15 (as claimed): every read_keywords and write_keywords call has closed the handle
\* it opened when it returns or raises, also when write_keywords raises on a key or
\* value after opening the file for writing: no handle is left open by a call.
C15_HandleClosedOnEveryExit ==
    [][last'.op \in {"read", "write"} => handles' = <<>>]_vars

(***************************************************************************)
(* Geometry: points_along_line                                             *)
(***************************************************************************)
\* The polylines taken have segments along the axes, so that every resampled point has
\* integer coordinates: points_between_points keeps a point multiplied by L, and the
\* division below is exact.
MaxLine == 3

\* pts = points_between_points(P[i], P[i + 1], delta), as plain coordinates.
segment_points(point1, point2, delta) ==
    LET L == length(point1, point2)
        r == points_between_points(point1, point2, delta)
    IN  IF r = Raised THEN Raised
        ELSE IF L = 0 THEN r
        ELSE Returned([k \in 1..Len(r.val[1]) |->
                          <<r.val[1][k][1] \div L, r.val[1][k][2] \div L>>])

\* numpy.allclose(a, b) on points with small integer coordinates: equal points.
allclose(a, b) == a = b

\* points.extend(pts) with no look at the last point recorded.
extend_all(points, pts) == points \o pts

\* if len(points) > 0 and numpy.allclose(points[-1], pts[0]): pts = pts[1:];
\* points.extend(pts)
extend(points, pts) ==
    IF Len(points) > 0 /\ allclose(points[Len(points)], pts[1])
    THEN points \o Tail(pts)
    ELSE points \o pts

\* The loop over the segments i, i + 1, ... of P, from the points recorded so far.
RECURSIVE along_loop(_, _, _, _)
along_loop(P, delta, i, points) ==
    IF i > Len(P) - 1 THEN Returned(points)
    ELSE LET pts == segment_points(P[i], P[i + 1], delta)
         IN  IF pts = Raised THEN Raised
             ELSE along_loop(P, delta, i + 1, extend(points, pts.val[1]))

points_along_line(line, delta) == along_loop(line, delta, 1, <<>>)

LinePoints == {<<0, 0>>, <<2, 0>>, <<3, 0>>, <<2, 2>>, <<3, 3>>, <<0, 3>>}

\* Consecutive points of the polyline share a coordinate.
AlongAxes(line) ==
    \A i \in 1..(Len(line) - 1) : line[i][1] = line[i + 1][1] \/ line[i][2] = line[i + 1][2]

InitLine ==
    /\ StoreIdle
    /\ arg \in [line : {l \in UNION {[1..n -> LinePoints] : n \in 0..MaxLine} : AlongAxes(l)},
                delta : -1..MaxDelta]
    /\ out = NotCalledYet

PointsAlongLine ==
    /\ out = NotCalledYet
    /\ out' = points_along_line(arg.line, arg.delta)
    /\ UNCHANGED <<file, handles, last, written, pc, loc, arg>>

NextLine == PointsAlongLine

SpecLine == InitLine /\ [][NextLine]_vars

\* The points of segment i, without the first one when it is the point that ends acc.
SegmentAfter(acc, i) ==
    LET pts == segment_points(arg.line[i], arg.line[i + 1], arg.delta).val[1]
    IN  IF acc # <<>> /\ acc[Len(acc)] = pts[1] THEN Tail(pts) ELSE pts

\* The concatenation over the first n segments.
RECURSIVE Concatenated(_)
Concatenated(n) ==
    IF n = 0 THEN <<>>
    ELSE Concatenated(n - 1) \o SegmentAfter(Concatenated(n - 1), n)

\* C16: points_along_line(line, delta) is the concatenation, in order, of
\* points_between_points over the consecutive segments, the first point of a segment
\* being dropped when it is the last point accumulated so far; when consecutive
\* vertices are distinct and delta > 0 no two consecutive points of the output
\* coincide and every vertex but possibly the last is in it.
C16_ConcatenationWithoutDuplicates ==
    (out # NotCalledYet /\ arg.delta # 0)
    => /\ out = Returned(Concatenated(IF Len(arg.line) = 0 THEN 0 ELSE Len(arg.line) - 1))
       /\ (arg.delta > 0 /\ \A i \in 1..(Len(arg.line) - 1) : arg.line[i] # arg.line[i + 1])
            => LET V == out.val[1]
               IN  /\ \A k \in 1..(Len(V) - 1) : V[k] # V[k + 1]
                   /\ \A i \in 1..(Len(arg.line) - 1) : \E k \in 1..Len(V) : V[k] = arg.line[i]

C16_Witness ==
    /\ arg = [line |-> <<<<0, 0>>, <<2, 0>>, <<2, 2>>>>, delta |-> 1]
    /\ out = Returned(<<<<0, 0>>, <<1, 0>>, <<2, 0>>, <<2, 1>>, <<2, 2>>>>)

\* The file has headers, and from the first one on it holds nothing but headers and
\* blank lines: none of its blocks has a data line.
OnlyEmptyBlocks(f) ==
    /\ f.exists
    /\ \E lines \in {readlines(f.data)} :
          /\ \E i \in 1..Len(lines) : block_flag(rstrip(lines[i]))
          /\ \A i \in 1..Len(lines) :
                \/ rstrip(lines[i]) = <<>>
                \/ block_flag(rstrip(lines[i]))
                \/ \A j \in 1..i : ~block_flag(rstrip(lines[j]))

\* C17: read_keywords(f, all_blocks=True) returns no block with an empty keywords
\* dict; after write_keywords({}, f, sublayer=s) the next reads do not show s; a file
\* whose blocks are all empty is taken as not multilayer by the next write_keywords,
\* which writes its own block only.
C17_EmptyBlocksNotRecorded ==
    [][/\ (ReadStep /\ last'.all_blocks)
            => \A item \in last'.value.val : item[2] # {}
       /\ (AfterWrite /\ last.keywords = {} /\ last.sublayer # PyNone /\ ReadStep)
            => /\ last'.all_blocks => last.sublayer \notin Keys(last'.value.val)
               /\ (~last'.all_blocks /\ last'.sublayer = last.sublayer)
                     => last'.value = ReturnNone
       /\ (last'.op = "write" /\ last'.ext_ok /\ ~last'.raised /\ handles = <<>>
             /\ OnlyEmptyBlocks(file))
            => /\ last'.existing = {}
               /\ file'.data \in {o.buf : o \in write_one(last'.keywords, last'.sublayer)}
      ]_vars

C17_Witness ==
    /\ file.data = <<"[", "x", "]", "\n", "\n", "[", "y", "]", "\n",
                     "b", ":", " ", "N", "o", "n", "e", "\n", "\n">>
    /\ last.op = "read" /\ last.ext_ok /\ ~last.all_blocks /\ last.sublayer = <<"x">>
    /\ last.value = ReturnNone

====
